---------------------------- MODULE Spec2Model ----------------------------
(***************************************************************************)
(* A model of OpenMOC's CSG surface layer (src/src/Surface.cpp):           *)
(*   - the neighbor-cell graph maintained by Surface::addNeighborCell,     *)
(*   - the id counters behind surf_id(), reset_surf_id() and the Surface   *)
(*     constructor and destructor,                                         *)
(*   - Plane::intersection and ZCylinder::intersection, in exact rational  *)
(*     arithmetic on a grid of ray directions whose sines and cosines are  *)
(*     rational (multiples of 1/5, from the 3-4-5 triangle).               *)
(* Each part has its own specification; the variables of the other parts   *)
(* stay at their initial values.                                           *)
(***************************************************************************)
EXTENDS Integers, Sequences, FiniteSets, TLC

VARIABLES
  neighbors,      \* Surface -> the std::map _neighbors: halfspace key -> pointer to a vector of Cells
  cellNeighbors,  \* Cell -> the Cells it holds as neighbors (Cell::_neighbors)
  informed,       \* the calls a->addNeighborCell(b) issued so far, as pairs <<a, b>>
  outcome,        \* how the last Surface::addNeighborCell call ended
  lastCall,       \* the arguments of the last Surface::addNeighborCell call
  ncalls,         \* number of Surface::addNeighborCell calls made
  auto_id,        \* static int auto_id
  n,              \* static int Surface::_n
  live,           \* the Surfaces alive: records [uid, id, given]
  uidLog,         \* the _uid of every Surface ever constructed, in construction order
  autoLog,        \* the ids handed out by surf_id() since the last reset (or program start)
  resetDone,      \* TRUE once reset_surf_id() has been called
  userSinceReset, \* number of constructions with a user id since the last reset
  surface,        \* the Surface whose intersection() is called: its type and coefficients
  ray,            \* the arguments of the call: origin point, azim, polar
  points,         \* the caller's buffer of two Points
  num,            \* the count intersection() returned
  pc,             \* "idle", "called" (arguments chosen) or "returned"
  heap,           \* the character arrays in memory: address -> [freed, data]
  variant,        \* the kind of the Surface whose name is followed, "NONE" before it is constructed
  name,           \* char* _name of that Surface: an address of heap, 0 for NULL
  given,          \* the string the last constructor or setName call was given as the name
  nameOps,        \* number of operations made on the name and on the caller's buffer
  probe,          \* the Points passed to isPointOnSurface: a point, and the same moved by dist along the normal
  onSurface,      \* what isPointOnSurface returned for the two: [before, after]
  stage,          \* where the TrackGenerator's pipeline stands
  contains_2D_tracks,   \* bool _contains_2D_tracks
  contains_2D_segments, \* bool _contains_2D_segments
  num_x,          \* int* _num_x: per azimuthal angle, the Tracks starting on the x-axis
  num_y,          \* int* _num_y: per azimuthal angle, the Tracks starting on the y-axis
  periodic,       \* bool _periodic
  requested,      \* the layout asked for (_num_azim, _azim_spacing), as the Track counts [nx, ny] it leads to
  tracks_2D,      \* Track2D** _tracks_2D: <<azim, index>> -> the Track
  tracks_per_cycle, \* int* _tracks_per_cycle, per azimuthal angle
  cycles_per_azim,  \* int* _cycles_per_azim, per azimuthal angle
  materials,      \* the Geometry: FSR -> total cross-section of its material
  trackFile,      \* the *.tracks file: "none", or what dumpSegmentsToFile wrote
  lastStep,       \* the last step of the TrackGenerator and how it ended
  segmentFSRs,    \* per thread, the FSRs of the segments of the Track it segments
  threads,        \* per thread, where it is in the loop over these segments
  FSR_locks,      \* omp_lock_t* _FSR_locks: the thread holding each FSR's lock, 0 if none
  FSR_volumes     \* FP_PRECISION* _FSR_volumes

nbrVars == <<neighbors, cellNeighbors, informed, outcome, lastCall, ncalls>>
idVars == <<auto_id, n, live, uidLog, autoLog, resetDone, userSinceReset>>
isectVars == <<surface, ray, points, num, pc>>
nameVars == <<heap, variant, name, given, nameOps>>
probeVars == <<probe, onSurface>>
trackVars == <<stage, contains_2D_tracks, contains_2D_segments, num_x, num_y, periodic, requested, tracks_2D,
               tracks_per_cycle, cycles_per_azim, materials, trackFile, lastStep>>
volVars == <<segmentFSRs, threads, FSR_locks, FSR_volumes>>

vars == <<nbrVars, idVars, isectVars, nameVars, probeVars, trackVars, volVars>>

(***************************************************************************)
(* Bounds of the model.                                                    *)
(***************************************************************************)
NumSurfaces == 2
NumCells == 3
MaxCalls == 4
MaxCtor == 4
PlaneGridMax == 1
CylGridMax == 8
MaxNameLen == 2
MaxNameOps == 3
ThreshParts == 4
MaxNum == 2
MaxOptical == 2
NumThreads == 2
MaxSegments == 2

Surfaces == 1..NumSurfaces
Cells == 1..NumCells

(***************************************************************************)
(* Helpers on vectors (std::vector as a sequence).                         *)
(***************************************************************************)
Range(v) == {v[i] : i \in 1..Len(v)}

NoDuplicates(v) == \A i, j \in 1..Len(v) : v[i] = v[j] => i = j

\* A std::vector<Cell*>* : null, or pointing to a vector of Cells.
NullPtr == [isNull |-> TRUE, vec |-> <<>>]

NewVector == [isNull |-> FALSE, vec |-> <<>>]

(***************************************************************************)
(* Surface::addNeighborCell                                                *)
(***************************************************************************)
\* The halfspace arguments tried: the two valid ones and an invalid one.
HalfspaceArgs == {-1, 0, 1}

\* The map as the constructor leaves it: an empty vector under each of -1, +1.
NewNeighborsMap == [h \in {-1, 1} |-> NewVector]

HalfspaceInvalid_OnlyNegative(halfspace) == halfspace < -1

\* if (halfspace != -1 && halfspace != +1)
HalfspaceInvalid(halfspace) == halfspace # -1 /\ halfspace # 1

\* log_printf(ERROR, ...) does not return to its caller: it raises the error
\* that aborts geometry construction.
LogErrorThrows == TRUE

\* _neighbors[halfspace]: std::map::operator[] inserts a value-initialised
\* (null) pointer under a key that is absent.
MapIndex(map, key) ==
  IF key \in DOMAIN map THEN map
  ELSE [k \in (DOMAIN map) \cup {key} |-> IF k = key THEN NullPtr ELSE map[k]]

PushIfAbsent_Always(vec, cell) == Append(vec, cell)

\* if (std::find(begin, end, cell) == end) neighbors->push_back(cell);
PushIfAbsent(vec, cell) ==
  IF cell \in Range(vec) THEN vec ELSE Append(vec, cell)

\* for (iter1 in first) for (iter2 in second) (*iter1)->addNeighborCell(*iter2):
\* the calls of one double loop, in order, as pairs <<receiver, argument>>.
RECURSIVE LoopCalls(_, _, _, _)
LoopCalls(first, second, i, j) ==
  IF i > Len(first) THEN <<>>
  ELSE IF j > Len(second) THEN LoopCalls(first, second, i + 1, 1)
  ELSE <<<<first[i], second[j]>>>> \o LoopCalls(first, second, i, j + 1)

PropagationCalls_FirstLoopOnly(map) == LoopCalls(map[-1].vec, map[1].vec, 1, 1)

\* The two double loops that follow the insertion.
PropagationCalls(map) ==
  LoopCalls(map[-1].vec, map[1].vec, 1, 1) \o LoopCalls(map[1].vec, map[-1].vec, 1, 1)

\* Cell::addNeighborCell(cell): the receiver records cell as a neighbor.
CellAddNeighborCell(nbrs, cell) == nbrs \cup {cell}

RECURSIVE ApplyCalls(_, _, _)
ApplyCalls(cn, calls, k) ==
  IF k > Len(calls) THEN cn
  ELSE ApplyCalls([cn EXCEPT ![calls[k][1]] =
                      CellAddNeighborCell(cn[calls[k][1]], calls[k][2])],
                  calls, k + 1)

NbrInit ==
  /\ neighbors = [s \in Surfaces |-> NewNeighborsMap]
  /\ cellNeighbors = [c \in Cells |-> {}]
  /\ informed = {}
  /\ outcome = "none"
  /\ lastCall = [surface |-> 0, halfspace |-> 0, cell |-> 0]
  /\ ncalls = 0

AddNeighborCell(s, halfspace, cell) ==
  /\ ncalls < MaxCalls
  /\ outcome # "null_dereference"
  /\ ncalls' = ncalls + 1
  /\ lastCall' = [surface |-> s, halfspace |-> halfspace, cell |-> cell]
  /\ IF HalfspaceInvalid(halfspace) /\ LogErrorThrows
       THEN /\ outcome' = "error"
            /\ UNCHANGED <<neighbors, cellNeighbors, informed>>
       ELSE LET indexed == MapIndex(neighbors[s], halfspace)
                ptr == indexed[halfspace]
            IN IF ptr.isNull
                 \* neighbors->begin() through a null pointer
                 THEN /\ outcome' = "null_dereference"
                      /\ neighbors' = [neighbors EXCEPT ![s] = indexed]
                      /\ UNCHANGED <<cellNeighbors, informed>>
                 ELSE LET pushed == PushIfAbsent(ptr.vec, cell)
                          map == [indexed EXCEPT ![halfspace].vec = pushed]
                          calls == PropagationCalls(map)
                      IN /\ outcome' = IF Len(pushed) = Len(ptr.vec)
                                         THEN "already_present" ELSE "added"
                         /\ neighbors' = [neighbors EXCEPT ![s] = map]
                         /\ cellNeighbors' = ApplyCalls(cellNeighbors, calls, 1)
                         /\ informed' = informed \cup Range(calls)
  /\ UNCHANGED <<idVars, isectVars, nameVars, probeVars, trackVars, volVars>>

(***************************************************************************)
(* surf_id, reset_surf_id, Surface::Surface, Surface::~Surface             *)
(***************************************************************************)
\* static int auto_id = 10000;  and the value reset_surf_id() restores
AutoIdStart == 10000

\* The ids passed to the constructor: 0 asks for an auto-generated id.
IdArgs == {0, 1, 2, AutoIdStart}

IdInit ==
  /\ auto_id = AutoIdStart
  /\ n = 0
  /\ live = {}
  /\ uidLog = <<>>
  /\ autoLog = <<>>
  /\ resetDone = FALSE
  /\ userSinceReset = 0

SurfIdResult_PreIncrement(counter) == counter + 1

\* int id = auto_id; auto_id++; return id;
SurfIdResult(counter) == counter

SurfIdNext_NoIncrement(counter) == counter

\* auto_id++;
SurfIdNext(counter) == counter + 1

\* if (id == 0)
UseAutoId(id) == id = 0

\* reset_surf_id() assigns auto_id only: Surface::_n keeps its value.
ResetUid(count) == count

DestroyUid_Decrement(count) == count - 1

\* ~Surface() frees the name and the neighbor vectors: Surface::_n keeps its value.
DestroyUid(count) == count

Construct(id) ==
  /\ Len(uidLog) < MaxCtor
  /\ IF UseAutoId(id)
       THEN /\ auto_id' = SurfIdNext(auto_id)
            /\ autoLog' = Append(autoLog, SurfIdResult(auto_id))
            /\ live' = live \cup {[uid |-> n, id |-> SurfIdResult(auto_id), given |-> id]}
            /\ UNCHANGED userSinceReset
       ELSE /\ live' = live \cup {[uid |-> n, id |-> id, given |-> id]}
            /\ userSinceReset' = userSinceReset + 1
            /\ UNCHANGED <<auto_id, autoLog>>
  /\ uidLog' = Append(uidLog, n)
  /\ n' = n + 1
  /\ UNCHANGED <<resetDone, nbrVars, isectVars, nameVars, probeVars, trackVars, volVars>>

Destroy(sf) ==
  /\ sf \in live
  /\ live' = live \ {sf}
  /\ n' = DestroyUid(n)
  /\ UNCHANGED <<auto_id, uidLog, autoLog, resetDone, userSinceReset, nbrVars, isectVars, nameVars, probeVars, trackVars, volVars>>

ResetSurfId ==
  /\ auto_id' = AutoIdStart
  /\ autoLog' = <<>>
  /\ userSinceReset' = 0
  /\ resetDone' = TRUE
  /\ n' = ResetUid(n)
  /\ UNCHANGED <<live, uidLog, nbrVars, isectVars, nameVars, probeVars, trackVars, volVars>>

(***************************************************************************)
(* Exact arithmetic for the doubles of the intersection routines.  A value *)
(* is a fraction [num, den] in lowest terms with den >= 0; den = 0 stands  *)
(* for the IEEE values a division by zero produces: 1/0 = +inf,            *)
(* -1/0 = -inf, 0/0 = NaN.  Rounding is not modelled.                      *)
(***************************************************************************)
Sign(i) == IF i > 0 THEN 1 ELSE IF i < 0 THEN -1 ELSE 0

Abs(i) == IF i < 0 THEN -i ELSE i

RECURSIVE GCD(_, _)
GCD(a, b) == IF b = 0 THEN a ELSE GCD(b, a % b)

Frac(nm, dn) ==
  IF dn = 0 THEN [num |-> Sign(nm), den |-> 0]
  ELSE LET g == GCD(Abs(nm), Abs(dn))
       IN [num |-> (Sign(dn) * nm) \div g, den |-> Abs(dn) \div g]

R(i) == [num |-> i, den |-> 1]

NaN == [num |-> 0, den |-> 0]

IsNaN(a) == a.den = 0 /\ a.num = 0

IsFinite(a) == a.den # 0

RNeg(a) == [num |-> -a.num, den |-> a.den]

RAdd(a, b) ==
  IF a.den = 0 /\ b.den = 0
    THEN (IF a.num = b.num THEN a ELSE NaN)
    ELSE Frac(a.num * b.den + b.num * a.den, a.den * b.den)

RSub(a, b) == RAdd(a, RNeg(b))

RMul(a, b) == Frac(a.num * b.num, a.den * b.den)

RDiv(a, b) ==
  IF a.den = 0 /\ b.den = 0 THEN NaN
  ELSE Frac(a.num * b.den * (IF b.num < 0 THEN -1 ELSE 1), a.den * Abs(b.num))

\* a < b; false when either is NaN
RLt(a, b) ==
  IF IsNaN(a) \/ IsNaN(b) THEN FALSE
  ELSE IF a.den = 0 /\ b.den = 0 THEN a.num < b.num
  ELSE a.num * b.den < b.num * a.den

RGt(a, b) == RLt(b, a)

\* fabs
RAbs(a) == [num |-> Abs(a.num), den |-> a.den]

\* fabs(a) < 1.e-10: the values of the model are fractions of small
\* denominator, so only zero is that small.
Tiny(a) == a.den # 0 /\ a.num = 0

\* fabs(a) > 1.e-10
NotTiny(a) == ~IsNaN(a) /\ a.num # 0

\* The largest k of lo..hi with k*k <= i, by bisection (lo*lo <= i)
RECURSIVE FloorSqrt(_, _, _)
FloorSqrt(i, lo, hi) ==
  IF lo >= hi THEN lo
  ELSE LET mid == (lo + hi + 1) \div 2
       IN IF mid * mid <= i THEN FloorSqrt(i, mid, hi) ELSE FloorSqrt(i, lo, mid - 1)

\* The integer square root, for arguments below 2^31 (46340 is the largest
\* integer whose square is)
SqrtInt(i) == FloorSqrt(i, 0, IF i < 46340 THEN i ELSE 46340)

IsSquareInt(i) == SqrtInt(i) * SqrtInt(i) = i

\* a is the square of a fraction
IsSquare(a) == a.den # 0 /\ a.num >= 0 /\ IsSquareInt(a.num) /\ IsSquareInt(a.den)

\* sqrt, on the squares of fractions (the inputs are chosen so that no other
\* argument occurs)
RSqrt(a) == [num |-> SqrtInt(a.num), den |-> SqrtInt(a.den)]

\* pow(a, 2.0)
RSquare(a) == RMul(a, a)

(***************************************************************************)
(* Angles.  An angle is given by its direction [c, s]: cos = c/5 and       *)
(* sin = s/5 with c*c + s*s = 25, so that sines and cosines are exact.     *)
(* Azimuthal angles lie in [0, 2 pi), polar angles in [0, pi].             *)
(***************************************************************************)
AzimAngles ==
  {[c |-> x, s |-> y] : <<x, y>> \in {<<5, 0>>, <<4, 3>>, <<3, 4>>, <<0, 5>>, <<-3, 4>>, <<-4, 3>>,
                                      <<-5, 0>>, <<-4, -3>>, <<-3, -4>>, <<0, -5>>, <<3, -4>>, <<4, -3>>}}

PolarAngles ==
  {[c |-> x, s |-> y] : <<x, y>> \in {<<5, 0>>, <<4, 3>>, <<3, 4>>, <<0, 5>>, <<-3, 4>>, <<-4, 3>>, <<-5, 0>>}}

Cos(angle) == Frac(angle.c, 5)

Sin(angle) == Frac(angle.s, 5)

\* angle < M_PI, for an angle of [0, 2 pi)
LtPi(angle) == angle.s > 0 \/ (angle.s = 0 /\ angle.c > 0)

\* angle > M_PI, for an angle of [0, 2 pi)
GtPi(angle) == angle.s < 0

\* angle < M_PI_2, for an angle of [0, pi]
LtHalfPi(angle) == angle.c > 0

\* angle > M_PI_2, for an angle of [0, pi]
GtHalfPi(angle) == angle.c < 0

\* fabs(angle - M_PI_2) < 1.e-10, for an angle of [0, pi]
IsHalfPi(angle) == angle.c = 0 /\ angle.s > 0

\* fabs(azim - M_PI_2) < 1.0e-10 || fabs(azim - 3.0 * M_PI_2) < 1.0e-10
AzimVertical(azim) == azim.c = 0

\* tan(M_PI_2 - polar)
TanHalfPiMinus(polar) == RDiv(Cos(polar), Sin(polar))

Pt(x, y, z) == [x |-> x, y |-> y, z |-> z]

(***************************************************************************)
(* Plane, XPlane, YPlane, ZPlane                                           *)
(***************************************************************************)
\* Plane::Plane(A, B, C, D, id, name)
Plane(A, B, C, D) == [type |-> "PLANE", A |-> R(A), B |-> R(B), C |-> R(C), D |-> R(D)]

\* XPlane::XPlane(x, id, name): Plane(1, 0, 0, -x, id)
XPlane(x) == [Plane(1, 0, 0, -x) EXCEPT !.type = "XPLANE"]

\* YPlane::YPlane(y, id, name): Plane(0, 1, 0, -y, id)
YPlane(y) == [Plane(0, 1, 0, -y) EXCEPT !.type = "YPLANE"]

\* ZPlane::ZPlane(z, id, name): Plane(0, 0, 1, -z, id, name)
ZPlane(z) == [Plane(0, 0, 1, -z) EXCEPT !.type = "ZPLANE"]

\* The direction cosines mx, my, mz of a trajectory
DirX(azim, polar) == RMul(Sin(polar), Cos(azim))

DirY(azim, polar) == RMul(Sin(polar), Sin(azim))

DirZ(azim, polar) == Cos(polar)

\* The test the code makes for "the track and plane are parallel"
PlaneParallelTest(s, mx, my, mz) ==
  \/ (Tiny(mx) /\ NotTiny(s.A))
  \/ (Tiny(my) /\ NotTiny(s.B))
  \/ (Tiny(mz) /\ NotTiny(s.C))

\* l = -(A*x0 + B*y0 + C*z0 + D) / (A*mx + B*my + C*mz)
PlaneDistance(s, p, mx, my, mz) ==
  RDiv(RNeg(RAdd(RAdd(RAdd(RMul(s.A, p.x), RMul(s.B, p.y)), RMul(s.C, p.z)), s.D)),
       RAdd(RAdd(RMul(s.A, mx), RMul(s.B, my)), RMul(s.C, mz)))

PlaneCounts_Always(l) == TRUE

\* if (l > 0.0) num++;
PlaneCounts(l) == RGt(l, R(0))

\* Plane::intersection: the count returned and the buffer as it leaves it
PlaneIntersection(s, p, azim, polar, pts) ==
  LET mx == DirX(azim, polar)
      my == DirY(azim, polar)
      mz == DirZ(azim, polar)
  IN IF PlaneParallelTest(s, mx, my, mz)
       THEN [num |-> 0, points |-> pts]
       ELSE LET l == PlaneDistance(s, p, mx, my, mz)
                xcurr == RAdd(p.x, RMul(l, mx))
                ycurr == RAdd(p.y, RMul(l, my))
                zcurr == RAdd(p.z, RMul(l, mz))
            IN [num |-> IF PlaneCounts(l) THEN 1 ELSE 0,
                points |-> [pts EXCEPT ![1] = Pt(xcurr, ycurr, zcurr)]]

\* The buffer before a call: two Points the caller constructed earlier
FreshPoints == <<Pt(R(0), R(0), R(0)), Pt(R(0), R(0), R(0))>>

NoSurface == [type |-> "NONE"]

NoRay == [point |-> Pt(R(0), R(0), R(0)), azim |-> [c |-> 5, s |-> 0], polar |-> [c |-> 0, s |-> 5]]

IsectIdle ==
  /\ surface = NoSurface
  /\ ray = NoRay
  /\ points = FreshPoints
  /\ num = 0
  /\ pc = "idle"

PlaneGrid == -PlaneGridMax..PlaneGridMax

\* The planes tried: the three axis-aligned kinds at each grid position, and
\* general planes with one, two and three non-zero normal components.
PlaneInputs ==
  {XPlane(x) : x \in PlaneGrid} \cup {YPlane(y) : y \in PlaneGrid} \cup {ZPlane(z) : z \in PlaneGrid}
  \cup {Plane(1, 1, 0, 0), Plane(1, -1, 0, 1), Plane(1, 1, 1, -1), Plane(3, 4, 0, -2)}

PlaneInit ==
  /\ surface \in PlaneInputs
  /\ ray \in [point : {Pt(R(x), R(y), R(z)) : x, y, z \in PlaneGrid},
              azim : AzimAngles, polar : PolarAngles]
  /\ points = FreshPoints
  /\ num = 0
  /\ pc = "called"

PlaneIntersect ==
  /\ pc = "called"
  /\ surface.type \in {"PLANE", "XPLANE", "YPLANE", "ZPLANE"}
  /\ LET res == PlaneIntersection(surface, ray.point, ray.azim, ray.polar, points)
     IN /\ num' = res.num
        /\ points' = res.points
  /\ pc' = "returned"
  /\ UNCHANGED <<surface, ray, nbrVars, idVars, nameVars, probeVars, trackVars, volVars>>

(***************************************************************************)
(* ZCylinder                                                               *)
(***************************************************************************)
\* ZCylinder::ZCylinder(x, y, radius, id, name)
ZCylinder(x, y, radius) ==
  [type |-> "ZCYLINDER", A |-> R(1), B |-> R(1), C |-> R(-2 * x), D |-> R(-2 * y),
   E |-> R(x * x + y * y - radius * radius), radius |-> R(radius),
   center |-> [x |-> R(x), y |-> R(y)]]

\* double m = sin(azim) / cos(azim);
Slope(azim) == RDiv(Sin(azim), Cos(azim))

\* The coefficients a, b, c of the quadratic: in y along the line x = x0 when
\* the track is vertical in y, in x along y - y0 = m*(x - x0) otherwise.
Quadratic(s, p, azim) ==
  IF AzimVertical(azim)
    THEN [a |-> RMul(s.B, s.B),
          b |-> s.D,
          c |-> RAdd(RAdd(RMul(RMul(s.A, p.x), p.x), RMul(s.C, p.x)), s.E)]
    ELSE LET m == Slope(azim)
             q == RSub(p.y, RMul(m, p.x))
         IN [a |-> RAdd(s.A, RMul(RMul(RMul(s.B, s.B), m), m)),
             b |-> RAdd(RAdd(RMul(RMul(RMul(R(2), s.B), m), q), s.C), RMul(s.D, m)),
             c |-> RAdd(RAdd(RMul(RMul(s.B, q), q), RMul(s.D, q)), s.E)]

\* discr = b*b - 4*a*c
Discriminant(qd) == RSub(RMul(qd.b, qd.b), RMul(RMul(R(4), qd.a), qd.c))

\* (-b + sqrt(discr)) / (2*a)  and  (-b - sqrt(discr)) / (2*a)
RootPlus(qd) == RDiv(RAdd(RNeg(qd.b), RSqrt(Discriminant(qd))), RMul(R(2), qd.a))

RootMinus(qd) == RDiv(RSub(RNeg(qd.b), RSqrt(Discriminant(qd))), RMul(R(2), qd.a))

\* -b / (2*a)
RootDouble(qd) == RDiv(RNeg(qd.b), RMul(R(2), qd.a))

\* The argument of the sqrt in zcurr
Dist2(p, xcurr, ycurr) == RAdd(RSquare(RSub(ycurr, p.y)), RSquare(RSub(xcurr, p.x)))

\* zcurr = z0 + sqrt(pow(ycurr - y0, 2.0) + pow(xcurr - x0, 2.0)) * tan(M_PI_2 - polar)
ZCurr(p, xcurr, ycurr, polar) ==
  RAdd(p.z, RMul(RSqrt(Dist2(p, xcurr, ycurr)), TanHalfPiMinus(polar)))

\* The three-way test on zcurr and polar made inside each azimuthal case
PolarMatches(p, zcurr, polar) ==
  IF RGt(zcurr, p.z) /\ LtHalfPi(polar) THEN TRUE
  ELSE IF RLt(zcurr, p.z) /\ GtHalfPi(polar) THEN TRUE
  ELSE Tiny(RSub(zcurr, p.z)) /\ IsHalfPi(polar)

\* "Check that point is in same direction as angle": whether num++ runs
InDirection(p, azim, polar, ycurr, zcurr) ==
  IF LtPi(azim) /\ RGt(ycurr, p.y) THEN PolarMatches(p, zcurr, polar)
  ELSE IF GtPi(azim) /\ RLt(ycurr, p.y) THEN PolarMatches(p, zcurr, polar)
  ELSE FALSE

\* points[num].setCoords(xcurr, ycurr, zcurr), num counted from 0
SetCoords(pts, idx, xcurr, ycurr, zcurr) == [pts EXCEPT ![idx + 1] = Pt(xcurr, ycurr, zcurr)]

\* The x of the one-root case: the line's own x when the track is vertical
\* in y, -b / (2*a) otherwise
OneRootX(p, azim, qd) == IF AzimVertical(azim) THEN p.x ELSE RootDouble(qd)

\* The y of the one-root case: -b / (2*a) when the track is vertical in y;
\* otherwise y0 + m * (points[num].getX() - x0), which reads the x the buffer
\* held before the call
OneRootY(p, azim, qd, pts) ==
  IF AzimVertical(azim) THEN RootDouble(qd)
  ELSE RAdd(p.y, RMul(Slope(azim), RSub(pts[1].x, p.x)))

\* One root of the two-root case: store it at points[k], count it if it
\* passes the direction check
TakeRoot(p, azim, polar, pts, k, root) ==
  LET xcurr == IF AzimVertical(azim) THEN p.x ELSE root
      ycurr == IF AzimVertical(azim) THEN root
               ELSE RAdd(p.y, RMul(Slope(azim), RSub(xcurr, p.x)))
      zcurr == ZCurr(p, xcurr, ycurr, polar)
  IN [num |-> IF InDirection(p, azim, polar, ycurr, zcurr) THEN k + 1 ELSE k,
      points |-> SetCoords(pts, k, xcurr, ycurr, zcurr)]

\* Whether the path taken ends in "return num": every path does, except the
\* one-root case of a track vertical in y, which runs off the end of the
\* function.
ReachesReturn(azim, discr) == ~(AzimVertical(azim) /\ discr.num = 0)

\* ZCylinder::intersection: the count computed, the buffer as the call leaves
\* it, and whether the path ends in a return statement.
ZCylinderIntersection(s, p, azim, polar, pts) ==
  LET qd == Quadratic(s, p, azim)
      discr == Discriminant(qd)
  IN IF RLt(discr, R(0))
       THEN [num |-> 0, points |-> pts, returns |-> TRUE]
     ELSE IF discr.num = 0
       THEN LET xcurr == OneRootX(p, azim, qd)
                ycurr == OneRootY(p, azim, qd, pts)
                zcurr == ZCurr(p, xcurr, ycurr, polar)
            IN [num |-> IF InDirection(p, azim, polar, ycurr, zcurr) THEN 1 ELSE 0,
                points |-> SetCoords(pts, 0, xcurr, ycurr, zcurr),
                returns |-> ReachesReturn(azim, discr)]
     ELSE LET first == TakeRoot(p, azim, polar, pts, 0, RootPlus(qd))
              second == TakeRoot(p, azim, polar, first.points, first.num, RootMinus(qd))
          IN [num |-> second.num, points |-> second.points, returns |-> TRUE]

\* What a caller may receive when the function runs off its end without a
\* return statement: the count computed, or any other int.
NoReturnValues(count) == {count, -1, 0, 1, 2}

CylGrid == -CylGridMax..CylGridMax

\* The polar angles tried for cylinders: those of (0, pi).
CylPolarAngles == {a \in PolarAngles : a.s # 0}

\* The x the caller's first Point may hold before the call: a sample of the grid.
BufferXs == {x \in CylGrid : x % 4 = 0}

\* Every sqrt of the call is of the square of a fraction.
SqrtExact(s, p, azim, pts) ==
  LET qd == Quadratic(s, p, azim)
      discr == Discriminant(qd)
  IN IF RLt(discr, R(0)) THEN TRUE
     ELSE IF discr.num = 0
       THEN IsSquare(Dist2(p, OneRootX(p, azim, qd), OneRootY(p, azim, qd, pts)))
     ELSE IsSquare(discr)

CylinderInit ==
  /\ surface \in {ZCylinder(1, -1, 5)}
  /\ ray \in [point : {Pt(R(x), R(y), R(0)) : x, y \in CylGrid},
              azim : AzimAngles, polar : CylPolarAngles]
  /\ points \in {<<Pt(R(g), R(0), R(0)), Pt(R(0), R(0), R(0))>> : g \in BufferXs}
  /\ SqrtExact(surface, ray.point, ray.azim, points)
  /\ num = 0
  /\ pc = "called"

CylinderIntersect ==
  /\ pc = "called"
  /\ surface.type = "ZCYLINDER"
  /\ LET res == ZCylinderIntersection(surface, ray.point, ray.azim, ray.polar, points)
     IN /\ num' \in (IF res.returns THEN {res.num} ELSE NoReturnValues(res.num))
        /\ points' = res.points
  /\ pc' = "returned"
  /\ UNCHANGED <<surface, ray, nbrVars, idVars, nameVars, probeVars, trackVars, volVars>>

(***************************************************************************)
(* Surface::setName, Surface::getName and the name argument of the         *)
(* constructors.  A C string is a character array ending in 0; the arrays  *)
(* live in heap, at addresses 1, 2, ...                                    *)
(***************************************************************************)
\* The characters of the names tried (0 is the terminator)
NameChars == {1, 2}

\* The names tried: the strings of at most MaxNameLen characters
Names == UNION {[1..k -> NameChars] : k \in 0..MaxNameLen}

\* The caller's buffer holding str: MaxNameLen + 1 chars, str then zeros
Buffer(str) == [i \in 1..(MaxNameLen + 1) |-> IF i <= Len(str) THEN str[i] ELSE 0]

\* The address of the caller's buffer
CallerBuffer == 1

\* The address of the string literal that is the constructors' default
\* argument for name
DefaultName == 2

Block(data) == [freed |-> FALSE, data |-> data]

\* strlen(name): the number of chars before the first 0 (an array without a
\* 0 is read to its end here; the program reads on past it)
StrLen(data) ==
  IF \E i \in 1..Len(data) : data[i] = 0
    THEN (CHOOSE i \in 1..Len(data) : data[i] = 0 /\ \A j \in 1..(i - 1) : data[j] # 0) - 1
    ELSE Len(data)

\* The string a char* points to, in memory mem
StringAt(mem, ptr) == SubSeq(mem[ptr].data, 1, StrLen(mem[ptr].data))

\* delete [] _name, when _name is not NULL
DeleteName(mem, ptr) ==
  IF ptr = 0 THEN mem ELSE [mem EXCEPT ![ptr] = [freed |-> TRUE, data |-> <<>>]]

\* for (int i=0; i <= length; i++) _name[i] = name[i]:  the arrays the loop
\* can leave in _name.  Reading an array that was deleted is undefined: any
\* chars may be read.
CopiedChars(mem, ptr, length) ==
  IF mem[ptr].freed THEN [1..(length + 1) -> NameChars \cup {0}]
  ELSE {SubSeq(mem[ptr].data, 1, length + 1)}

\* Surface::setName(name), called with _name = cur and name = ptr: the
\* possible outcomes, as the memory and the new value of _name
SetNameOutcomes(mem, cur, ptr) ==
  LET length == StrLen(mem[ptr].data)
      deleted == DeleteName(mem, cur)
      copies == CopiedChars(deleted, ptr, length)
  IN {[heap |-> Append(deleted, Block(chars)), name |-> Len(deleted) + 1] : chars \in copies}

SurfaceVariants == {"PLANE", "XPLANE", "YPLANE", "ZPLANE", "ZCYLINDER"}

PassedName_Forwarded(kind, ptr) == ptr

\* The name that reaches Surface::Surface(id, name) from the constructor of
\* each variant: Plane, ZPlane and ZCylinder pass their argument on; XPlane
\* and YPlane call Plane(1, 0, 0, -x, id) and Plane(0, 1, 0, -y, id), leaving
\* name to its default.
PassedName(kind, ptr) ==
  IF kind \in {"XPLANE", "YPLANE"} THEN DefaultName ELSE ptr

NameInit ==
  /\ heap \in {<<Block(Buffer(str)), Block(<<0>>)>> : str \in Names}
  /\ variant = "NONE"
  /\ name = 0
  /\ given = <<>>
  /\ nameOps = 0

NameIdle ==
  /\ heap = <<Block(Buffer(<<>>)), Block(<<0>>)>>
  /\ variant = "NONE"
  /\ name = 0
  /\ given = <<>>
  /\ nameOps = 0

\* new Plane(..., id, buf), new XPlane(x, id, buf), ...: the constructor of
\* one variant, given the caller's buffer as the name.  Surface::Surface
\* sets _name = NULL and calls setName(name).
ConstructNamed(kind) ==
  /\ variant = "NONE"
  /\ variant' = kind
  /\ given' = StringAt(heap, CallerBuffer)
  /\ \E res \in SetNameOutcomes(heap, 0, PassedName(kind, CallerBuffer)) :
       heap' = res.heap /\ name' = res.name
  /\ nameOps' = nameOps + 1
  /\ UNCHANGED <<nbrVars, idVars, isectVars, probeVars, trackVars, volVars>>

\* surface->setName(ptr), with the caller's buffer or with the pointer that
\* getName() returned
SetName(ptr) ==
  /\ variant # "NONE"
  /\ nameOps < MaxNameOps
  /\ given' = StringAt(heap, ptr)
  /\ \E res \in SetNameOutcomes(heap, name, ptr) :
       heap' = res.heap /\ name' = res.name
  /\ nameOps' = nameOps + 1
  /\ UNCHANGED <<variant, nbrVars, idVars, isectVars, probeVars, trackVars, volVars>>

\* The caller overwrites one char of its buffer (the last one stays 0)
CallerWrites(i, ch) ==
  /\ variant # "NONE"
  /\ nameOps < MaxNameOps
  /\ ~heap[CallerBuffer].freed
  /\ heap[CallerBuffer].data[i] # ch
  /\ heap' = [heap EXCEPT ![CallerBuffer].data[i] = ch]
  /\ nameOps' = nameOps + 1
  /\ UNCHANGED <<variant, name, given, nbrVars, idVars, isectVars, probeVars, trackVars, volVars>>

\* Surface::getName(): the string at _name
GetName == StringAt(heap, name)

(***************************************************************************)
(* Surface::isPointOnSurface                                               *)
(***************************************************************************)
\* ON_SURFACE_THRESH, "a fixed small tolerance".  Its value is set outside
\* Surface.cpp; here it is small against the distances between the grid
\* points and wide enough to be divided into ThreshParts parts.
ON_SURFACE_THRESH == Frac(1, 2)

\* evaluate(point): the left-hand side of the Surface's equation at the
\* point, A*x + B*y + C*z + D for the planes and
\* A*x*x + B*y*y + C*x + D*y + E for the ZCylinder.
Evaluate(s, p) ==
  IF s.type = "ZCYLINDER"
    THEN RAdd(RAdd(RAdd(RAdd(RMul(RMul(s.A, p.x), p.x), RMul(RMul(s.B, p.y), p.y)),
                        RMul(s.C, p.x)), RMul(s.D, p.y)), s.E)
    ELSE RAdd(RAdd(RAdd(RMul(s.A, p.x), RMul(s.B, p.y)), RMul(s.C, p.z)), s.D)

IsPointOnSurface_NoFabs(s, p) == RLt(Evaluate(s, p), ON_SURFACE_THRESH)

\* if (fabs(evaluate(point)) < ON_SURFACE_THRESH) return true; else return false;
IsPointOnSurface(s, p) == RLt(RAbs(Evaluate(s, p)), ON_SURFACE_THRESH)

\* The unit normal of Surface s at p: (A, B, C) / |(A, B, C)| for a plane,
\* the direction from the axis to p for a ZCylinder.
UnitNormal(s, p) ==
  IF s.type = "ZCYLINDER"
    THEN LET dx == RSub(p.x, s.center.x)
             dy == RSub(p.y, s.center.y)
             rho == RSqrt(RAdd(RSquare(dx), RSquare(dy)))
         IN Pt(RDiv(dx, rho), RDiv(dy, rho), R(0))
    ELSE LET norm == RSqrt(RAdd(RAdd(RSquare(s.A), RSquare(s.B)), RSquare(s.C)))
         IN Pt(RDiv(s.A, norm), RDiv(s.B, norm), RDiv(s.C, norm))

\* p moved by dist along the direction dir
MovePoint(p, dir, dist) ==
  Pt(RAdd(p.x, RMul(dist, dir.x)), RAdd(p.y, RMul(dist, dir.y)), RAdd(p.z, RMul(dist, dir.z)))

\* The Surfaces whose points are classified: each kind of plane, two planes
\* whose normal is not a unit vector, and two ZCylinders.
ProbeSurfaces ==
  {XPlane(1), YPlane(-1), ZPlane(0), Plane(3, 4, 0, 1), Plane(0, 3, -4, 1),
   ZCylinder(0, 0, 1), ZCylinder(1, -1, 5)}

\* The points tried: a grid point of Surface s, moved off it along the
\* normal by up to two tolerances in steps of ON_SURFACE_THRESH / ThreshParts,
\* or by a whole unit (the axis of a ZCylinder, where there is no normal,
\* is left out).
ProbePoints(s) ==
  LET grid == IF s.type = "ZCYLINDER" THEN -4..6 ELSE -1..1
      bases == {b \in {Pt(R(x), R(y), R(z)) : x, y \in grid, z \in -1..1} : Evaluate(s, b).num = 0}
      offsets == {RMul(Frac(k, ThreshParts), ON_SURFACE_THRESH) : k \in (-2 * ThreshParts)..(2 * ThreshParts)}
                   \cup {R(-1), R(1)}
  IN {q \in {MovePoint(b, UnitNormal(s, b), e) : b \in bases, e \in offsets} :
        IsFinite(UnitNormal(s, q).x)}

\* The distances a point is moved by: less than ON_SURFACE_THRESH, either way
ProbeDistances ==
  {RMul(Frac(k, ThreshParts), ON_SURFACE_THRESH) : k \in (1 - ThreshParts)..(ThreshParts - 1)}

ProbeIdle ==
  /\ probe = [point |-> Pt(R(0), R(0), R(0)), moved |-> Pt(R(0), R(0), R(0)), dist |-> R(0)]
  /\ onSurface = [before |-> FALSE, after |-> FALSE]

ProbeInit ==
  /\ surface \in ProbeSurfaces
  /\ \E p \in ProbePoints(surface), d \in ProbeDistances :
       probe = [point |-> p, moved |-> MovePoint(p, UnitNormal(surface, p), d), dist |-> d]
  /\ onSurface = [before |-> FALSE, after |-> FALSE]
  /\ ray = NoRay
  /\ points = FreshPoints
  /\ num = 0
  /\ pc = "called"

\* surface->isPointOnSurface(&point)
ClassifyPoint ==
  /\ pc = "called"
  /\ onSurface' = [onSurface EXCEPT !.before = IsPointOnSurface(surface, probe.point)]
  /\ pc' = "classified"
  /\ UNCHANGED <<surface, ray, points, num, probe, nbrVars, idVars, nameVars, trackVars, volVars>>

\* surface->isPointOnSurface(&moved)
ClassifyMoved ==
  /\ pc = "classified"
  /\ onSurface' = [onSurface EXCEPT !.after = IsPointOnSurface(surface, probe.moved)]
  /\ pc' = "returned"
  /\ UNCHANGED <<surface, ray, points, num, probe, nbrVars, idVars, nameVars, trackVars, volVars>>

(***************************************************************************)
(* TrackGenerator: the pipeline behind generateTracks() and                *)
(* splitSegments(), for one pair of complementary azimuthal angles, phi    *)
(* (azim 0) and pi - phi (azim 1), over a rectangular domain.  With nx     *)
(* Tracks starting on the x-axis and ny on the y-axis, the Tracks enter at *)
(* evenly spaced points; positions are in half spacings, [u, v] with       *)
(* 0 <= u <= 2*nx and 0 <= v <= 2*ny, where every Track has slope +1 or -1 *)
(* and lengths are counted in half diagonals of a spacing.                 *)
(***************************************************************************)
Azims == {0, 1}

TrackIds(nx, ny) == {<<a, i>> : a \in Azims, i \in 0..(nx + ny - 1)}

\* Where Track i of angle a starts: the first nx Tracks on the x-axis, the
\* others on the y-axis side the angle enters through
TrackStart(a, i, nx, ny) ==
  IF i < nx THEN [u |-> 2 * i + 1, v |-> 0]
  ELSE [u |-> IF a = 0 THEN 0 ELSE 2 * nx, v |-> 2 * (i - nx) + 1]

\* Where it leaves the domain: through the opposite side or through the top
TrackEnd(a, i, nx, ny) ==
  LET st == TrackStart(a, i, nx, ny)
      toSide == IF a = 0 THEN 2 * nx - st.u ELSE st.u
      toTop == 2 * ny - st.v
      t == IF toSide < toTop THEN toSide ELSE toTop
  IN [u |-> IF a = 0 THEN st.u + t ELSE st.u - t, v |-> st.v + t]

NoLink == [track |-> <<0, 0>>, fwd |-> TRUE]

\* initializeTracks(): the Tracks of both angles, not yet linked or segmented
LaidOutTracks(nx, ny) ==
  [id \in TrackIds(nx, ny) |->
     [start |-> TrackStart(id[1], id[2], nx, ny), end |-> TrackEnd(id[1], id[2], nx, ny),
      next_fwd |-> NoLink, next_bwd |-> NoLink, segments |-> <<>>]]

\* The Track of angle a whose start (or end) is the point pt
TrackAt(trks, a, side, pt) == CHOOSE id \in DOMAIN trks : id[1] = a /\ trks[id][side] = pt

\* The Track that continues Track id beyond its end (fwd) or before its
\* start (~fwd), and the direction it is then followed in.  Periodic: the
\* Track of the same angle entering at the opposite point of the domain.
\* Reflective: the Track of the complementary angle through the same point,
\* followed upwards after a side and downwards after the top.
LinkAcross(trks, id, fwd, nx, ny, per) ==
  LET pt == IF fwd THEN trks[id].end ELSE trks[id].start
      topOrBottom == pt.v = 0 \/ pt.v = 2 * ny
      here == IF fwd THEN "end" ELSE "start"
      there == IF fwd THEN "start" ELSE "end"
  IN IF per
       THEN [track |-> TrackAt(trks, id[1], there,
                               IF topOrBottom THEN [u |-> pt.u, v |-> 2 * ny - pt.v]
                               ELSE [u |-> 2 * nx - pt.u, v |-> pt.v]),
             fwd |-> fwd]
     ELSE IF topOrBottom
       THEN [track |-> TrackAt(trks, 1 - id[1], here, pt), fwd |-> ~fwd]
     ELSE [track |-> TrackAt(trks, 1 - id[1], there, pt), fwd |-> fwd]

\* initializeTrackReflections(): every Track gets its two links
LinkedTracks(trks, nx, ny, per) ==
  [id \in DOMAIN trks |->
     [trks[id] EXCEPT !.next_fwd = LinkAcross(trks, id, TRUE, nx, ny, per),
                      !.next_bwd = LinkAcross(trks, id, FALSE, nx, ny, per)]]

\* leastCommonMultiple(a, b)
LeastCommonMultiple(a, b) == (a * b) \div GCD(a, b)

TracksPerCycle_OneWay(nx, ny, per) ==
  LeastCommonMultiple(nx, ny) \div nx + LeastCommonMultiple(nx, ny) \div ny

\* _tracks_per_cycle[azim]: the crossings of the domain until the path
\* closes, that is until it has covered a common multiple of the width and
\* of the height (of twice each when the boundaries reflect)
TracksPerCycle(nx, ny, per) ==
  (IF per THEN 1 ELSE 2)
    * (LeastCommonMultiple(nx, ny) \div nx + LeastCommonMultiple(nx, ny) \div ny)

\* The link followed from a Track taken in one direction
NextLink(trks, link) ==
  IF link.fwd THEN trks[link.track].next_fwd ELSE trks[link.track].next_bwd

\* Following the links k times
RECURSIVE FollowLinks(_, _, _)
FollowLinks(trks, link, k) ==
  IF k = 0 THEN link ELSE FollowLinks(trks, NextLink(trks, link), k - 1)

\* The geometric length of a Track
TrackLength(trk) == trk.end.v - trk.start.v

\* The flat source regions are the vertical strips of the domain, FSR k over
\* 2*k <= u <= 2*k + 2.  The walk of a Track from u to uEnd in direction dir
\* gives one segment per strip crossed, with that FSR's material.
RECURSIVE WalkSegments(_, _, _, _)
WalkSegments(u, uEnd, dir, mats) ==
  IF u = uEnd THEN <<>>
  ELSE LET border == IF dir = 1 THEN 2 * (u \div 2) + 2 ELSE 2 * ((u + 1) \div 2) - 2
           stop == IF dir = 1 THEN (IF border < uEnd THEN border ELSE uEnd)
                   ELSE (IF border > uEnd THEN border ELSE uEnd)
           fsr == IF dir = 1 THEN u \div 2 ELSE (u - 1) \div 2
       IN <<[length |-> R(Abs(stop - u)), fsr |-> fsr, material |-> mats[fsr]]>>
            \o WalkSegments(stop, uEnd, dir, mats)

\* segmentize(): the segments of one Track
SegmentsOf(trk, mats) ==
  WalkSegments(trk.start.u, trk.end.u, IF trk.end.u > trk.start.u THEN 1 ELSE -1, mats)

\* The total cross-sections of the materials filling the FSRs: one material
\* throughout, or a denser one in every other FSR
Geometries ==
  {[k \in 0..(MaxNum - 1) |-> 1], [k \in 0..(MaxNum - 1) |-> IF k % 2 = 0 THEN 3 ELSE 1]}

\* The number of pieces a segment is cut into: the least number that brings
\* the optical length of each piece down to max_optical_length
NumCuts(seg, max) ==
  LET tau == RMul(seg.length, R(seg.material))
  IN IF RLt(R(max), tau) THEN (tau.num + max * tau.den - 1) \div (max * tau.den) ELSE 1

CutLength_Truncated(length, cuts) == R(length.num \div (length.den * cuts))

\* The length of each piece
CutLength(length, cuts) == RDiv(length, R(cuts))

\* splitSegments() on one Track: every segment replaced by its pieces
RECURSIVE SplitTrack(_, _)
SplitTrack(segs, max) ==
  IF segs = <<>> THEN <<>>
  ELSE LET seg == Head(segs)
           cuts == NumCuts(seg, max)
       IN [k \in 1..cuts |-> [seg EXCEPT !.length = CutLength(seg.length, cuts)]]
            \o SplitTrack(Tail(segs), max)

\* The signature a Track file is keyed by
Signature == <<requested, periodic, materials>>

NoFile == [key |-> <<>>]

NoTracks == [id \in {} |-> 0]

Step(op, err) == [op |-> op, error |-> err]

TrackIdle ==
  /\ stage = "UNINITIALIZED"
  /\ contains_2D_tracks = FALSE
  /\ contains_2D_segments = FALSE
  /\ num_x = 0
  /\ num_y = 0
  /\ periodic = FALSE
  /\ requested = [nx |-> 1, ny |-> 1]
  /\ tracks_2D = NoTracks
  /\ tracks_per_cycle = [a \in Azims |-> 0]
  /\ cycles_per_azim = [a \in Azims |-> 0]
  /\ materials = [k \in 0..(MaxNum - 1) |-> 1]
  /\ trackFile = NoFile
  /\ lastStep = Step("none", FALSE)

\* A new TrackGenerator over some geometry, with some layout asked for
TrackInit ==
  /\ stage = "UNINITIALIZED"
  /\ contains_2D_tracks = FALSE
  /\ contains_2D_segments = FALSE
  /\ num_x = 0
  /\ num_y = 0
  /\ periodic \in BOOLEAN
  /\ requested \in [nx : 1..MaxNum, ny : 1..MaxNum]
  /\ tracks_2D = NoTracks
  /\ tracks_per_cycle = [a \in Azims |-> 0]
  /\ cycles_per_azim = [a \in Azims |-> 0]
  /\ materials \in Geometries
  /\ trackFile = NoFile
  /\ lastStep = Step("new", FALSE)

TrackOthersIdle == UNCHANGED <<nbrVars, idVars, isectVars, nameVars, probeVars, volVars>>

\* initializeTracks()
InitializeTracks ==
  /\ stage = "UNINITIALIZED"
  /\ num_x' = requested.nx
  /\ num_y' = requested.ny
  /\ tracks_2D' = LaidOutTracks(requested.nx, requested.ny)
  /\ contains_2D_tracks' = TRUE
  /\ stage' = "TRACKS_LAID_OUT"
  /\ lastStep' = Step("initializeTracks", FALSE)
  /\ UNCHANGED <<contains_2D_segments, periodic, requested, tracks_per_cycle, cycles_per_azim,
                 materials, trackFile>>
  /\ TrackOthersIdle

\* initializeTrackReflections() and initializeTrackCycles()
InitializeTrackReflections ==
  /\ stage = "TRACKS_LAID_OUT"
  /\ tracks_2D' = LinkedTracks(tracks_2D, num_x, num_y, periodic)
  /\ tracks_per_cycle' = [a \in Azims |-> TracksPerCycle(num_x, num_y, periodic)]
  /\ cycles_per_azim' =
       [a \in Azims |-> ((IF periodic THEN 1 ELSE 2) * (num_x + num_y))
                          \div TracksPerCycle(num_x, num_y, periodic)]
  /\ stage' = "CYCLES_LINKED"
  /\ lastStep' = Step("initializeTrackReflections", FALSE)
  /\ UNCHANGED <<contains_2D_tracks, contains_2D_segments, num_x, num_y, periodic, requested,
                 materials, trackFile>>
  /\ TrackOthersIdle

MaySegmentize_Always(st) == TRUE

\* generateTracks() segments only the Tracks it has laid out and linked
MaySegmentize(st) == st = "CYCLES_LINKED"

\* segmentize()
Segmentize ==
  /\ MaySegmentize(stage)
  /\ tracks_2D' = [id \in DOMAIN tracks_2D |->
                     [tracks_2D[id] EXCEPT !.segments = SegmentsOf(tracks_2D[id], materials)]]
  /\ contains_2D_segments' = TRUE
  /\ stage' = "SEGMENTED"
  /\ lastStep' = Step("segmentize", FALSE)
  /\ UNCHANGED <<contains_2D_tracks, num_x, num_y, periodic, requested, tracks_per_cycle,
                 cycles_per_azim, materials, trackFile>>
  /\ TrackOthersIdle

\* dumpSegmentsToFile()
DumpSegmentsToFile ==
  /\ stage = "SEGMENTED"
  /\ trackFile' = [key |-> Signature, num_x |-> num_x, num_y |-> num_y, tracks |-> tracks_2D,
                   tracks_per_cycle |-> tracks_per_cycle, cycles_per_azim |-> cycles_per_azim]
  /\ lastStep' = Step("dumpSegmentsToFile", FALSE)
  /\ UNCHANGED <<stage, contains_2D_tracks, contains_2D_segments, num_x, num_y, periodic, requested,
                 tracks_2D, tracks_per_cycle, cycles_per_azim, materials>>
  /\ TrackOthersIdle

\* readSegmentsFromFile(): a file with another signature is refused
ReadSegmentsFromFile ==
  /\ stage = "UNINITIALIZED"
  /\ trackFile # NoFile
  /\ IF trackFile.key = Signature
       THEN /\ num_x' = trackFile.num_x
            /\ num_y' = trackFile.num_y
            /\ tracks_2D' = trackFile.tracks
            /\ tracks_per_cycle' = trackFile.tracks_per_cycle
            /\ cycles_per_azim' = trackFile.cycles_per_azim
            /\ contains_2D_tracks' = TRUE
            /\ contains_2D_segments' = TRUE
            /\ stage' = "SEGMENTED"
            /\ lastStep' = Step("readSegmentsFromFile", FALSE)
       ELSE /\ lastStep' = Step("readSegmentsFromFile", TRUE)
            /\ UNCHANGED <<stage, contains_2D_tracks, contains_2D_segments, num_x, num_y, tracks_2D,
                           tracks_per_cycle, cycles_per_azim>>
  /\ UNCHANGED <<periodic, requested, materials, trackFile>>
  /\ TrackOthersIdle

\* splitSegments(max_optical_length): an error without segments or with a
\* bound that is not positive
SplitSegments(max) ==
  /\ stage # "UNINITIALIZED"
  /\ IF contains_2D_segments /\ max > 0
       THEN /\ tracks_2D' = [id \in DOMAIN tracks_2D |->
                               [tracks_2D[id] EXCEPT !.segments = SplitTrack(@, max)]]
            /\ lastStep' = Step("splitSegments", FALSE)
       ELSE /\ lastStep' = Step("splitSegments", TRUE)
            /\ UNCHANGED tracks_2D
  /\ UNCHANGED <<stage, contains_2D_tracks, contains_2D_segments, num_x, num_y, periodic, requested,
                 tracks_per_cycle, cycles_per_azim, materials, trackFile>>
  /\ TrackOthersIdle

\* resetStatus(), as the setters of the layout call it
ResetStatus(req) ==
  /\ stage # "UNINITIALIZED"
  /\ requested' = req
  /\ stage' = "UNINITIALIZED"
  /\ contains_2D_tracks' = FALSE
  /\ contains_2D_segments' = FALSE
  /\ num_x' = 0
  /\ num_y' = 0
  /\ tracks_2D' = NoTracks
  /\ tracks_per_cycle' = [a \in Azims |-> 0]
  /\ cycles_per_azim' = [a \in Azims |-> 0]
  /\ lastStep' = Step("resetStatus", FALSE)
  /\ UNCHANGED <<periodic, materials, trackFile>>
  /\ TrackOthersIdle

(***************************************************************************)
(* The FSR volumes: segmentize() run by _num_threads threads, each         *)
(* segmenting a Track of its own and adding every segment's length times   *)
(* the Track's weight to the volume of the segment's FSR, under that       *)
(* FSR's lock.  The addition is a read of the volume followed by a write.  *)
(***************************************************************************)
Threads == 1..NumThreads

FSRs == {0, 1}

\* What the k-th segment of the Track of thread t adds to the volume of its
\* FSR: its length, k, times the weight of the Track, t
Contribution(t, k) == k * t

VolIdle ==
  /\ segmentFSRs = [t \in Threads |-> <<>>]
  /\ threads = [t \in Threads |-> [pc |-> "done", k |-> 1, volume |-> 0]]
  /\ FSR_locks = [f \in FSRs |-> 0]
  /\ FSR_volumes = [f \in FSRs |-> 0]

\* The locks are allocated and the volumes zeroed before the threads start
VolInit ==
  /\ segmentFSRs \in [Threads -> [1..MaxSegments -> FSRs]]
  /\ threads = [t \in Threads |-> [pc |-> "next", k |-> 1, volume |-> 0]]
  /\ FSR_locks = [f \in FSRs |-> 0]
  /\ FSR_volumes = [f \in FSRs |-> 0]

VolOthersIdle == UNCHANGED <<nbrVars, idVars, isectVars, nameVars, probeVars, trackVars>>

\* The FSR of the segment thread t is at
CurrentFSR(t) == segmentFSRs[t][threads[t].k]

MayLock_Unchecked(locks, fsr) == TRUE

\* omp_set_lock returns only when no thread holds the lock
MayLock(locks, fsr) == locks[fsr] = 0

\* omp_set_lock(&_FSR_locks[fsr])
SetLock(t) ==
  /\ threads[t].pc = "next"
  /\ MayLock(FSR_locks, CurrentFSR(t))
  /\ FSR_locks' = [FSR_locks EXCEPT ![CurrentFSR(t)] = t]
  /\ threads' = [threads EXCEPT ![t].pc = "locked"]
  /\ UNCHANGED <<segmentFSRs, FSR_volumes>>
  /\ VolOthersIdle

\* _FSR_volumes[fsr] += length * weight: the read
ReadVolume(t) ==
  /\ threads[t].pc = "locked"
  /\ threads' = [threads EXCEPT ![t].pc = "read", ![t].volume = FSR_volumes[CurrentFSR(t)]]
  /\ UNCHANGED <<segmentFSRs, FSR_locks, FSR_volumes>>
  /\ VolOthersIdle

\* _FSR_volumes[fsr] += length * weight: the write
WriteVolume(t) ==
  /\ threads[t].pc = "read"
  /\ FSR_volumes' = [FSR_volumes EXCEPT ![CurrentFSR(t)] =
                       threads[t].volume + Contribution(t, threads[t].k)]
  /\ threads' = [threads EXCEPT ![t].pc = "written"]
  /\ UNCHANGED <<segmentFSRs, FSR_locks>>
  /\ VolOthersIdle

\* omp_unset_lock(&_FSR_locks[fsr]), and on to the next segment
UnsetLock(t) ==
  /\ threads[t].pc = "written"
  /\ FSR_locks' = [FSR_locks EXCEPT ![CurrentFSR(t)] = 0]
  /\ threads' = [threads EXCEPT ![t].pc = IF threads[t].k = MaxSegments THEN "done" ELSE "next",
                                ![t].k = IF threads[t].k = MaxSegments THEN @ ELSE @ + 1]
  /\ UNCHANGED <<segmentFSRs, FSR_volumes>>
  /\ VolOthersIdle

(***************************************************************************)
(* Specifications                                                          *)
(***************************************************************************)
InitNeighbors == NbrInit /\ IdInit /\ IsectIdle /\ NameIdle /\ ProbeIdle /\ TrackIdle /\ VolIdle

NextNeighbors ==
  \E s \in Surfaces, h \in HalfspaceArgs, c \in Cells : AddNeighborCell(s, h, c)

SpecNeighbors == InitNeighbors /\ [][NextNeighbors]_vars

InitIds == NbrInit /\ IdInit /\ IsectIdle /\ NameIdle /\ ProbeIdle /\ TrackIdle /\ VolIdle

NextIds ==
  \/ \E id \in IdArgs : Construct(id)
  \/ \E sf \in live : Destroy(sf)
  \/ ResetSurfId

SpecIds == InitIds /\ [][NextIds]_vars

InitPlane == NbrInit /\ IdInit /\ PlaneInit /\ NameIdle /\ ProbeIdle /\ TrackIdle /\ VolIdle

NextPlane == PlaneIntersect

SpecPlane == InitPlane /\ [][NextPlane]_vars

InitCylinder == NbrInit /\ IdInit /\ CylinderInit /\ NameIdle /\ ProbeIdle /\ TrackIdle /\ VolIdle

NextCylinder == CylinderIntersect

SpecCylinder == InitCylinder /\ [][NextCylinder]_vars

InitNames == NbrInit /\ IdInit /\ IsectIdle /\ NameInit /\ ProbeIdle /\ TrackIdle /\ VolIdle

NextNames ==
  \/ \E kind \in SurfaceVariants : ConstructNamed(kind)
  \/ \E ptr \in {CallerBuffer, name} : SetName(ptr)
  \/ \E i \in 1..MaxNameLen, ch \in NameChars \cup {0} : CallerWrites(i, ch)

SpecNames == InitNames /\ [][NextNames]_vars

InitOnSurface == NbrInit /\ IdInit /\ NameIdle /\ ProbeInit /\ TrackIdle /\ VolIdle

NextOnSurface == ClassifyPoint \/ ClassifyMoved

SpecOnSurface == InitOnSurface /\ [][NextOnSurface]_vars

InitTracks == NbrInit /\ IdInit /\ IsectIdle /\ NameIdle /\ ProbeIdle /\ TrackInit /\ VolIdle

NextTracks ==
  \/ InitializeTracks
  \/ InitializeTrackReflections
  \/ Segmentize
  \/ DumpSegmentsToFile
  \/ ReadSegmentsFromFile
  \/ \E max \in 0..MaxOptical : SplitSegments(max)
  \/ \E req \in [nx : 1..MaxNum, ny : 1..MaxNum] : ResetStatus(req)

SpecTracks == InitTracks /\ [][NextTracks]_vars

InitVolumes == NbrInit /\ IdInit /\ IsectIdle /\ NameIdle /\ ProbeIdle /\ TrackIdle /\ VolInit

NextVolumes ==
  \E t \in Threads : SetLock(t) \/ ReadVolume(t) \/ WriteVolume(t) \/ UnsetLock(t)

SpecVolumes == InitVolumes /\ [][NextVolumes]_vars

(***************************************************************************)
(* Claims about the neighbor graph (specification SpecNeighbors)           *)
(***************************************************************************)
Halfspaces == {-1, 1}

\* a and b are registered on opposite halfspaces of Surface s
Opposite(s, a, b) ==
  \E h \in Halfspaces : a \in Range(neighbors[s][h].vec) /\ b \in Range(neighbors[s][-h].vec)

\* C1: on every Surface, each Cell of the -1 collection has been told (by a
\* Cell::addNeighborCell call) of each Cell of the +1 collection, and each Cell
\* of the +1 collection of each Cell of the -1 collection.
C1_OppositeCellsInformed ==
  \A s \in Surfaces : \A a \in Range(neighbors[s][-1].vec) : \A b \in Range(neighbors[s][1].vec) :
    <<a, b>> \in informed /\ <<b, a>> \in informed

\* C1 witness: a Cell was just added on one side of a Surface whose other
\* side already held Cells.
C1_Witness ==
  /\ outcome = "added"
  /\ \E s \in Surfaces : Len(neighbors[s][-1].vec) >= 1 /\ Len(neighbors[s][1].vec) >= 2

\* C2 as stated: whenever A, B border opposite halfspaces of one Surface and
\* B, C border opposite halfspaces of another, C is in A's adjacency set.
C2_TransitiveClosure ==
  \A s1, s2 \in Surfaces : \A a, b, c \in Cells :
    (s1 # s2 /\ a # b /\ b # c /\ a # c /\ Opposite(s1, a, b) /\ Opposite(s2, b, c))
      => c \in cellNeighbors[a]

\* C2 amended: a Cell's adjacency set holds exactly the Cells registered on
\* the opposite halfspace of some Surface it is registered on; so in the
\* chain A - S1 - B - S2 - C, B is adjacent to A and C and they to B, and C is
\* adjacent to A only through a Surface that A and C share.
C2_AdjacencyIsPerSurface ==
  \A a \in Cells : cellNeighbors[a] = {c \in Cells : \E s \in Surfaces : Opposite(s, a, c)}

\* C2 witness: a chain A - S1 - B - S2 - C in which C is not adjacent to A.
C2_Witness ==
  \E s1, s2 \in Surfaces : \E a, b, c \in Cells :
    /\ s1 # s2 /\ a # b /\ b # c /\ a # c
    /\ Opposite(s1, a, b) /\ Opposite(s2, b, c)
    /\ b \in cellNeighbors[a] /\ c \in cellNeighbors[b]
    /\ c \notin cellNeighbors[a]

\* C3: a call with a halfspace other than -1 and +1 ends in the error and
\* changes nothing: both collections, the keys of the map and every Cell's
\* adjacency stay as they were, and no null vector is dereferenced.
C3_InvalidHalfspaceIsError ==
  [][(ncalls' # ncalls /\ lastCall'.halfspace \notin Halfspaces)
       => /\ outcome' = "error"
          /\ neighbors' = neighbors
          /\ DOMAIN neighbors'[lastCall'.surface] = Halfspaces
          /\ cellNeighbors' = cellNeighbors
          /\ informed' = informed]_vars

\* C3 witness: an invalid call was rejected on a Surface that has neighbors.
C3_Witness ==
  /\ outcome = "error"
  /\ lastCall.halfspace \notin Halfspaces
  /\ Len(neighbors[lastCall.surface][-1].vec) >= 1
  /\ Len(neighbors[lastCall.surface][1].vec) >= 1

\* C4: neither collection of any Surface holds the same Cell twice.
C4_NoDuplicateNeighbors ==
  \A s \in Surfaces : \A h \in Halfspaces : NoDuplicates(neighbors[s][h].vec)

\* C4 witness: a Cell was added again to a collection holding two Cells.
C4_Witness ==
  /\ outcome = "already_present"
  /\ Len(neighbors[lastCall.surface][lastCall.halfspace].vec) >= 2

\* C5: adding a Cell that its halfspace's collection already holds changes
\* neither collection (members, order) nor any Cell's adjacency set.
C5_ReAddIsNoOp ==
  [][(/\ ncalls' # ncalls
      /\ lastCall'.halfspace \in Halfspaces
      /\ lastCall'.cell \in Range(neighbors[lastCall'.surface][lastCall'.halfspace].vec))
       => (neighbors' = neighbors /\ cellNeighbors' = cellNeighbors)]_vars

\* C5 witness: a repeated add on a Surface with Cells on both sides.
C5_Witness ==
  /\ outcome = "already_present"
  /\ Len(neighbors[lastCall.surface][-1].vec) >= 1
  /\ Len(neighbors[lastCall.surface][1].vec) >= 1
  /\ cellNeighbors[lastCall.cell] # {}

(***************************************************************************)
(* Claims about the ids (specification SpecIds)                            *)
(***************************************************************************)
\* C6: after a reset the k-th Surface constructed with id 0 gets id
\* 10000 + k - 1, whatever constructions with user ids come in between, and
\* a Surface constructed with a non-zero id stores exactly that id.
C6_AutoIdsAfterReset ==
  /\ resetDone => \A k \in 1..Len(autoLog) : autoLog[k] = AutoIdStart + k - 1
  /\ \A sf \in live : sf.given # 0 => sf.id = sf.given
  /\ \A sf \in live : sf.given = 0 => sf.id >= AutoIdStart

\* C6 witness: since the reset, three auto ids with a user id in between.
C6_Witness ==
  /\ resetDone
  /\ Len(autoLog) >= 3
  /\ userSinceReset >= 1
  /\ \E u, v, w \in live : /\ u.given = 0 /\ v.given # 0 /\ w.given = 0
                           /\ u.uid < v.uid /\ v.uid < w.uid

\* C7: the k-th Surface ever constructed has uid k - 1, whatever was
\* destroyed or reset before; so uids are never shared and never reused.
C7_UidSequential ==
  /\ \A k \in 1..Len(uidLog) : uidLog[k] = k - 1
  /\ \A u, v \in live : u.uid = v.uid => u = v
  /\ n = Len(uidLog)

\* C7 witness: a Surface constructed after a destruction and a reset.
C7_Witness ==
  /\ resetDone
  /\ Len(uidLog) >= 3
  /\ Cardinality(live) < Len(uidLog)
  /\ \E sf \in live : sf.uid = Len(uidLog) - 1

\* C19 as stated: over the whole process, of two Surfaces constructed with
\* id 0 the later one has the greater id, whatever resets came in between.
C19_AutoIdsIncreaseForever ==
  \A u, v \in live : (u.given = 0 /\ v.given = 0 /\ u.uid < v.uid) => u.id < v.id

\* C19 amended: between two resets (and before the first) each surf_id()
\* result is greater than every earlier one, and the next one will be
\* greater still; a reset starts the sequence again at 10000.
C19_AutoIdsIncreaseBetweenResets ==
  /\ \A i, j \in 1..Len(autoLog) : i < j => autoLog[i] < autoLog[j]
  /\ \A i \in 1..Len(autoLog) : autoLog[i] < auto_id
  /\ (autoLog # <<>> => autoLog[1] = AutoIdStart)

\* C19 witness: two ids handed out since a reset, the first of them equal
\* to the id of a Surface constructed before the reset.
C19_Witness ==
  /\ resetDone
  /\ Len(autoLog) >= 2
  /\ \E u, v \in live : /\ u.given = 0 /\ v.given = 0
                        /\ u.uid < v.uid /\ u.id = v.id /\ v.id = autoLog[1]

(***************************************************************************)
(* Claims about Plane::intersection (specification SpecPlane)              *)
(***************************************************************************)
AxisAligned == surface.type \in {"XPLANE", "YPLANE", "ZPLANE"}

\* The normal of the plane times the direction of the ray: zero exactly
\* when the ray is parallel to the plane.
NormalDotDirection ==
  RAdd(RAdd(RMul(surface.A, DirX(ray.azim, ray.polar)), RMul(surface.B, DirY(ray.azim, ray.polar))),
       RMul(surface.C, DirZ(ray.azim, ray.polar)))

RayParallel == NormalDotDirection.num = 0

\* The left-hand side A*x + B*y + C*z + D of the plane's equation at the
\* origin of the ray: zero exactly when the origin lies on the plane.
EquationAtOrigin ==
  RAdd(RAdd(RAdd(RMul(surface.A, ray.point.x), RMul(surface.B, ray.point.y)),
            RMul(surface.C, ray.point.z)), surface.D)

\* The plane is met at a positive distance along the ray: the ray is not
\* parallel, the origin is off the plane, and the ray heads towards the plane.
PlaneAhead ==
  Sign(EquationAtOrigin.num) * Sign(NormalDotDirection.num) < 0

\* C8 as stated: an axis-aligned plane gives 1 for every ray that is not
\* parallel to it and 0 for every parallel ray.
C8_OneUnlessParallel ==
  (pc = "returned" /\ AxisAligned) => num = (IF RayParallel THEN 0 ELSE 1)

\* C8 amended: an axis-aligned plane gives 1 exactly when the ray is not
\* parallel and meets the plane at a positive distance from its origin, and
\* 0 otherwise (parallel, origin on the plane, or plane behind the origin).
C8_OneIffAhead ==
  (pc = "returned" /\ AxisAligned) => num = (IF ~RayParallel /\ PlaneAhead THEN 1 ELSE 0)

\* C8 witness: a ray that is not parallel to an axis-aligned plane behind
\* its origin, for which the call returned 0.
C8_Witness ==
  /\ pc = "returned" /\ AxisAligned
  /\ ~RayParallel /\ ~PlaneAhead
  /\ EquationAtOrigin.num # 0
  /\ num = 0

\* The test "the track and plane are parallel" as the call made it
ParallelTestTaken ==
  PlaneParallelTest(surface, DirX(ray.azim, ray.polar), DirY(ray.azim, ray.polar),
                    DirZ(ray.azim, ray.polar))

\* The Point the call reported has three finite coordinates
ReportedFinite == IsFinite(points[1].x) /\ IsFinite(points[1].y) /\ IsFinite(points[1].z)

\* C16: for any plane, general or axis-aligned, the call returns 1 exactly
\* when the ray is not parallel to the plane (A*mx + B*my + C*mz # 0) and
\* meets it at a distance l > 0, and 0 otherwise; the division that gives l
\* is never by zero; and a point that is counted lies at a finite, positive
\* distance ahead of the origin.
C16_OneIffNotParallelAndAhead ==
  pc = "returned" =>
    /\ num = (IF ~RayParallel /\ PlaneAhead THEN 1 ELSE 0)
    /\ (~ParallelTestTaken => ~RayParallel)
    /\ (num = 1 => ReportedFinite)

(***************************************************************************)
(* Claims about ZCylinder::intersection (specification SpecCylinder)       *)
(***************************************************************************)
\* From the origin of the ray to the center of the cylinder, in the x-y
\* plane; the origins are grid points, so these are integers.
ToCenterX == surface.center.x.num - ray.point.x.num

ToCenterY == surface.center.y.num - ray.point.y.num

\* Five times the distance of the center from the line of the ray (signed)
CenterOffLine == ToCenterX * ray.azim.s - ToCenterY * ray.azim.c

\* Five times the distance along the ray at which it passes closest to the center
CenterAlongRay == ToCenterX * ray.azim.c + ToCenterY * ray.azim.s

OriginOutside ==
  ToCenterX * ToCenterX + ToCenterY * ToCenterY > surface.radius.num * surface.radius.num

\* The point lies on the cylinder: at distance radius from the center
OnCylinder(pt) ==
  RAdd(RSquare(RSub(pt.x, surface.center.x)), RSquare(RSub(pt.y, surface.center.y)))
    = RSquare(surface.radius)

\* C9: a ray from outside the cylinder towards its center gets 2 points,
\* each at distance r from the center, whatever the azimuthal angle.
C9_ThroughCenterTwoPoints ==
  (pc = "returned" /\ OriginOutside /\ CenterOffLine = 0 /\ CenterAlongRay > 0)
    => (num = 2 /\ OnCylinder(points[1]) /\ OnCylinder(points[2]))

\* The line of the ray touches the cylinder: the center is at distance
\* radius from it (the discriminant of the quadratic is zero).
Tangent ==
  CenterOffLine * CenterOffLine = 25 * surface.radius.num * surface.radius.num

\* C10: a ray tangent to the cylinder, with the point of tangency ahead of
\* its origin, gets exactly 1, for a track vertical in y and for any other.
C10_TangentReturnsOne ==
  (pc = "returned" /\ Tangent /\ CenterAlongRay > 0) => num = 1

\* The discriminant the call computed from its arguments
DiscrOfCall == Discriminant(Quadratic(surface, ray.point, ray.azim))

\* C17: every path of the call ends in a return statement, and the count
\* the caller receives is 0 for a negative discriminant, 0 or 1 for a zero
\* one and 0, 1 or 2 for a positive one, for a track vertical in y and for
\* any other.
C17_DefinedCountOnEveryPath ==
  pc = "returned" =>
    /\ ReachesReturn(ray.azim, DiscrOfCall)
    /\ (RLt(DiscrOfCall, R(0)) => num = 0)
    /\ (DiscrOfCall.num = 0 => num \in {0, 1})
    /\ (RGt(DiscrOfCall, R(0)) => num \in {0, 1, 2})

\* 25 * (radius^2 - distance^2 of the center from the line of the ray): its
\* sign is the sign of the discriminant.  The points where the line meets
\* the cylinder lie at the distances (CenterAlongRay +- sqrt(HalfChord2)) / 5
\* along the ray, in the x-y plane.
HalfChord2 == 25 * surface.radius.num * surface.radius.num - CenterOffLine * CenterOffLine

\* The number of points of the cylinder strictly ahead of the origin on the ray
RootsAhead ==
  IF HalfChord2 < 0 THEN 0
  ELSE IF HalfChord2 = 0 THEN (IF CenterAlongRay > 0 THEN 1 ELSE 0)
  ELSE (IF CenterAlongRay > 0 \/ CenterAlongRay * CenterAlongRay < HalfChord2 THEN 1 ELSE 0)
       + (IF CenterAlongRay > 0 /\ CenterAlongRay * CenterAlongRay > HalfChord2 THEN 1 ELSE 0)

\* C18: the call counts exactly the real roots whose point lies strictly
\* ahead of the origin in the direction of travel, for every azimuthal angle
\* of [0, 2 pi) and polar angle of (0, pi): none behind the origin is
\* counted, none ahead is dropped.
C18_CountsExactlyRootsAhead ==
  pc = "returned" => num = RootsAhead

\* The point lies on the line of the ray: on it in the x-y plane, at the
\* height the polar angle gives at that distance
OnRayLine(pt) ==
  /\ RMul(RSub(pt.y, ray.point.y), Cos(ray.azim)) = RMul(RSub(pt.x, ray.point.x), Sin(ray.azim))
  /\ pt.z = ZCurr(ray.point, pt.x, pt.y, ray.polar)

\* The buffers the caller may have passed
CallerBuffers == {<<Pt(R(g), R(0), R(0)), Pt(R(0), R(0), R(0))>> : g \in BufferXs}

\* What the same call returns when the buffer holds pts
CallWith(pts) == ZCylinderIntersection(surface, ray.point, ray.azim, ray.polar, pts)

\* C21: on return with count n the first n entries of the buffer are points
\* of the cylinder on the line of the ray, in the direction of the ray,
\* and neither n nor these entries would be different had the buffer held
\* anything else before the call
C21_BufferHoldsCountedPoints ==
  pc = "returned" =>
    /\ \A i \in 1..num :
         /\ OnCylinder(points[i])
         /\ OnRayLine(points[i])
         /\ InDirection(ray.point, ray.azim, ray.polar, points[i].y, points[i].z)
    /\ \A pts \in CallerBuffers :
         SqrtExact(surface, ray.point, ray.azim, pts) =>
           /\ num = CallWith(pts).num
           /\ \A i \in 1..num : points[i] = CallWith(pts).points[i]

(***************************************************************************)
(* Claims about the name of a Surface (specification SpecNames)            *)
(***************************************************************************)
\* C20: for every variant, getName() reports the name the Surface was
\* constructed with and, after setName(m), the string m as it was at the
\* call, whatever the caller has written into its buffer since.
C20_NameIsKept ==
  variant # "NONE" => (~heap[name].freed /\ GetName = given)

(***************************************************************************)
(* Claims about isPointOnSurface (specification SpecOnSurface)             *)
(***************************************************************************)
\* |evaluate(p)| at the point that is moved
EvaluateBefore == RAbs(Evaluate(surface, probe.point))

\* By how much moving p by dist along the normal changes evaluate(p):
\* |dist| * |(A, B, C)| for a plane (|dist| for XPlane, YPlane and ZPlane),
\* |2 * rho * dist + dist^2| for a ZCylinder with p at distance rho from the axis.
EvaluateChange ==
  IF surface.type = "ZCYLINDER"
    THEN LET rho == RSqrt(RAdd(RSquare(RSub(probe.point.x, surface.center.x)),
                               RSquare(RSub(probe.point.y, surface.center.y))))
         IN RAbs(RAdd(RMul(RMul(R(2), rho), probe.dist), RSquare(probe.dist)))
    ELSE RMul(RAbs(probe.dist),
              RSqrt(RAdd(RAdd(RSquare(surface.A), RSquare(surface.B)), RSquare(surface.C))))

\* C11 as stated: a point moved by less than ON_SURFACE_THRESH along the
\* normal is classified as it was before the move.
C11_MoveKeepsClassification ==
  pc = "returned" => onSurface.after = onSurface.before

\* C11 amended: the move changes evaluate(p) by EvaluateChange, so a point
\* whose |evaluate(p)| is below the tolerance by more than that is on the
\* Surface before and after the move, and one whose |evaluate(p)| reaches
\* the tolerance by at least that is off it before and after.
C11_StableOffTheBandEdge ==
  pc = "returned" =>
    /\ RLt(RAdd(EvaluateBefore, EvaluateChange), ON_SURFACE_THRESH)
         => (onSurface.before /\ onSurface.after)
    /\ ~RLt(RSub(EvaluateBefore, EvaluateChange), ON_SURFACE_THRESH)
         => (~onSurface.before /\ ~onSurface.after)

\* C11 witness: a point off the Surface but within the tolerance, moved by
\* a non-zero distance and classified on the Surface both times; it is on
\* the inner side of a ZCylinder.
C11_Witness ==
  /\ pc = "returned"
  /\ probe.dist.num # 0
  /\ Evaluate(surface, probe.point).num < 0
  /\ Evaluate(surface, probe.moved) # Evaluate(surface, probe.point)
  /\ surface.type = "ZCYLINDER"
  /\ RLt(RAdd(EvaluateBefore, EvaluateChange), ON_SURFACE_THRESH)
  /\ onSurface.before /\ onSurface.after


(***************************************************************************)
(* TrackGenerator claims                                                   *)
(***************************************************************************)
Linked == stage \in {"CYCLES_LINKED", "SEGMENTED"}

\* C12: once the Tracks are linked, following the links from any Track of
\* any azimuthal angle, in either direction, exactly _tracks_per_cycle[azim]
\* times leads back to that Track taken in the same direction
C12_CyclesClose ==
  Linked =>
    \A id \in DOMAIN tracks_2D : \A fwd \in BOOLEAN :
      FollowLinks(tracks_2D, [track |-> id, fwd |-> fwd], tracks_per_cycle[id[1]])
        = [track |-> id, fwd |-> fwd]

\* Linked Tracks between reflective boundaries, with a cycle longer than
\* the Tracks of one angle
C12_Witness ==
  /\ stage = "CYCLES_LINKED"
  /\ lastStep.op = "initializeTrackReflections"
  /\ ~periodic
  /\ num_x # num_y
  /\ tracks_per_cycle[0] > num_x + num_y


StageOrder == <<"UNINITIALIZED", "TRACKS_LAID_OUT", "CYCLES_LINKED", "SEGMENTED">>

StageRank(st) == CHOOSE r \in 1..4 : StageOrder[r] = st

\* C13: the stage only advances to the next one in the order UNINITIALIZED,
\* TRACKS_LAID_OUT, CYCLES_LINKED, SEGMENTED, or from UNINITIALIZED to
\* SEGMENTED when a Track file is read, or returns to UNINITIALIZED on a
\* reset; containsSegments() implies containsTracks() in every state; and
\* segments appear only on Tracks that are laid out and linked, or with the
\* Tracks read from a file
C13_PipelineInOrder ==
  /\ [](contains_2D_segments => contains_2D_tracks)
  /\ [](contains_2D_tracks <=> stage # "UNINITIALIZED")
  /\ [](contains_2D_segments <=> stage = "SEGMENTED")
  /\ [][stage' # stage =>
          \/ StageRank(stage') = StageRank(stage) + 1
          \/ stage = "UNINITIALIZED" /\ stage' = "SEGMENTED" /\ lastStep'.op = "readSegmentsFromFile"
          \/ stage' = "UNINITIALIZED" /\ lastStep'.op = "resetStatus"]_vars
  /\ [][contains_2D_segments' /\ ~contains_2D_segments =>
          \/ stage = "CYCLES_LINKED" /\ contains_2D_tracks
               /\ tracks_2D = LinkedTracks(LaidOutTracks(num_x, num_y), num_x, num_y, periodic)
          \/ lastStep'.op = "readSegmentsFromFile" /\ tracks_2D' = trackFile.tracks]_vars

\* Segments read from a Track file by a generator that has laid out nothing
C13_Witness ==
  /\ stage = "SEGMENTED"
  /\ lastStep.op = "readSegmentsFromFile"
  /\ ~lastStep.error
  /\ contains_2D_segments


RECURSIVE SumLengths(_)
SumLengths(segs) ==
  IF segs = <<>> THEN R(0) ELSE RAdd(Head(segs).length, SumLengths(Tail(segs)))

\* new is old with every segment replaced by one or more pieces of its FSR
\* and material, none longer than it, whose lengths sum to its length
RECURSIVE IsSplitOf(_, _)
IsSplitOf(new, old) ==
  IF old = <<>> THEN new = <<>>
  ELSE \E m \in 1..Len(new) :
         /\ SumLengths(SubSeq(new, 1, m)) = Head(old).length
         /\ \A j \in 1..m :
              /\ new[j].fsr = Head(old).fsr
              /\ new[j].material = Head(old).material
              /\ ~RLt(Head(old).length, new[j].length)
         /\ IsSplitOf(SubSeq(new, m + 1, Len(new)), Tail(old))

\* C14: the segment lengths of every segmented Track sum to the length of
\* the Track, before and after splitSegments; and a splitSegments step
\* replaces every segment by one or more segments of the same FSR and
\* material, none longer than it, whose lengths sum to its length
C14_SegmentLengthsConserved ==
  /\ [](contains_2D_segments =>
          \A id \in DOMAIN tracks_2D :
            /\ SumLengths(tracks_2D[id].segments) = R(TrackLength(tracks_2D[id]))
            /\ \A k \in DOMAIN tracks_2D[id].segments : RLt(R(0), tracks_2D[id].segments[k].length))
  /\ [][lastStep'.op = "splitSegments" =>
          \A id \in DOMAIN tracks_2D :
            IsSplitOf(tracks_2D'[id].segments, tracks_2D[id].segments)]_vars


\* A splitSegments that has cut a segment crossing a whole FSR into pieces
C14_Witness ==
  /\ lastStep.op = "splitSegments"
  /\ ~lastStep.error
  /\ \E id \in DOMAIN tracks_2D :
       /\ TrackLength(tracks_2D[id]) > 2
       /\ Len(tracks_2D[id].segments) > Len(SegmentsOf(tracks_2D[id], materials))


(***************************************************************************)
(* FSR volume claims                                                       *)
(***************************************************************************)
\* The threads that are between the locking and the unlocking of FSR f
Updating(f) == {t \in Threads : threads[t].pc \in {"locked", "read", "written"} /\ CurrentFSR(t) = f}

RECURSIVE SumContributions(_, _, _)
SumContributions(f, t, k) ==
  IF t = 0 THEN 0
  ELSE IF k = 0 THEN SumContributions(f, t - 1, MaxSegments)
  ELSE (IF segmentFSRs[t][k] = f THEN Contribution(t, k) ELSE 0) + SumContributions(f, t, k - 1)

\* C15: at most one thread at a time is updating the volume of an FSR, and
\* it is the holder of that FSR's lock; a lock is held only by a thread that
\* is updating that FSR, so no thread holds two; and when all threads are
\* done the volume of every FSR is the sum of the contributions, length
\* times weight, of all segments in it
C15_VolumesRaceFree ==
  /\ \A f \in FSRs :
       /\ Cardinality(Updating(f)) <= 1
       /\ \A t \in Updating(f) : FSR_locks[f] = t
       /\ FSR_locks[f] # 0 => FSR_locks[f] \in Updating(f)
  /\ \A t \in Threads : Cardinality({f \in FSRs : FSR_locks[f] = t}) <= 1
  /\ (\A t \in Threads : threads[t].pc = "done") =>
       \A f \in FSRs : FSR_volumes[f] = SumContributions(f, NumThreads, MaxSegments)

\* All threads done, after two of them added to the volume of the same FSR
C15_Witness ==
  /\ \A t \in Threads : threads[t].pc = "done"
  /\ \E f \in FSRs : \E t1, t2 \in Threads :
       /\ t1 # t2
       /\ \E k \in 1..MaxSegments : segmentFSRs[t1][k] = f
       /\ \E k \in 1..MaxSegments : segmentFSRs[t2][k] = f

=============================================================================
